---- MODULE Spec2Model ----
(***************************************************************************)
(* Model of src/ui/pages/SendTransaction/NetworkFee/NetworkFee.tsx:        *)
(* the fee-basis extraction, the fee-type label, the EIP-1559 tier match,  *)
(* the time and fiat memos and the two react-query fetches of NetworkFee.  *)
(*                                                                         *)
(* JavaScript values are records tagged by t: undefined, null, string      *)
(* (s: the sequence of its characters), number (n: an integer), NaN and    *)
(* object.  Truthiness (ToBoolean), Number() (ToNumber) and === are        *)
(* modelled as the language defines them.                                  *)
(***************************************************************************)
EXTENDS Integers, Sequences, FiniteSets

VARIABLES
    args,                \* pure-function specifications: the inputs drawn
    ret,                 \* pure-function specifications: the last call's result
    transaction,         \* NetworkFee prop
    provider,            \* what gasChainPricesSubscription.get() holds for the chain
    phase,               \* "init" | "thrown" | "mounted" | "errorBoundary"
    gasPricesQuery,      \* useQuery(['defi-sdk/gasPrices', chain])
    feeEstimationQuery,  \* useQuery(['feeEstimation', chain, transaction])
    estimationCall,      \* arguments of the getNetworkFeeEstimation call issued
    nativeAsset,         \* useNativeAsset(chain).value
    fetches              \* gasChainPricesSubscription.get() calls issued so far

vars == <<args, ret, transaction, provider, phase, gasPricesQuery,
          feeEstimationQuery, estimationCall, nativeAsset, fetches>>

----------------------------------------------------------------------------
(* Bounds of the model *)

\* numeric transaction fields range over 0..MaxVal
MaxVal == 2
\* tier fees range over 1..MaxFee
MaxFee == 2
\* estimation_seconds ranges over -1..MaxSeconds, or is absent
MaxSeconds == 1
\* asset decimals range over 0..MaxDecimals
MaxDecimals == 1

----------------------------------------------------------------------------
(* JavaScript values *)

Undefined == [t |-> "undefined"]
Null == [t |-> "null"]
NaN == [t |-> "NaN"]
Str(s) == [t |-> "string", s |-> s]
Num(n) == [t |-> "number", n |-> n]

\* ToBoolean: what `a && b`, `a || b`, `!a`, `if (a)` and isTruthy test
ToBoolean(v) ==
    CASE v.t = "undefined" -> FALSE
      [] v.t = "null" -> FALSE
      [] v.t = "NaN" -> FALSE
      [] v.t = "string" -> Len(v.s) > 0
      [] v.t = "number" -> v.n # 0
      [] OTHER -> TRUE

isTruthy(v) == ToBoolean(v)

DecDigits == <<"0", "1", "2", "3", "4", "5", "6", "7", "8", "9">>
HexDigits == DecDigits \o <<"a", "b", "c", "d", "e", "f">>

DigitValue(digits, c) ==
    IF \E i \in 1..Len(digits) : digits[i] = c
    THEN (CHOOSE i \in 1..Len(digits) : digits[i] = c) - 1
    ELSE -1

RECURSIVE ParseDigits(_, _, _, _)
\* the value of the digit string s in the given base, or -1 when a
\* character of s is no digit of that base
ParseDigits(s, digits, base, acc) ==
    IF Len(s) = 0 THEN acc
    ELSE IF DigitValue(digits, Head(s)) < 0 THEN -1
    ELSE ParseDigits(Tail(s), digits, base, acc * base + DigitValue(digits, Head(s)))

\* StringToNumber for the literals the model draws: the empty string is 0,
\* "0x" followed by hex digits and a run of decimal digits are their values,
\* any other text is NaN
StringToNumber(s) ==
    IF Len(s) = 0 THEN Num(0)
    ELSE IF Len(s) > 2 /\ s[1] = "0" /\ s[2] = "x"
    THEN LET v == ParseDigits(SubSeq(s, 3, Len(s)), HexDigits, 16, 0)
         IN IF v < 0 THEN NaN ELSE Num(v)
    ELSE LET v == ParseDigits(s, DecDigits, 10, 0)
         IN IF v < 0 THEN NaN ELSE Num(v)

\* Number(v)
Number(v) ==
    CASE v.t = "undefined" -> NaN
      [] v.t = "null" -> Num(0)
      [] v.t = "string" -> StringToNumber(v.s)
      [] OTHER -> v

\* a === b on numbers: NaN equals nothing, itself included
StrictEquals(a, b) == a.t = "number" /\ b.t = "number" /\ a.n = b.n

Hex(n) == <<"0", "x", HexDigits[n + 1]>>
Dec(n) == <<DecDigits[n + 1]>>

\* the values a transaction field may hold: absent, or a string (empty,
\* non-numeric, a hex or a decimal literal); the fields are string-typed, which
\* is why the source casts each with Number()
FieldValues ==
    {Undefined, Str(<<>>), Str(<<"z">>)}
        \cup {Str(Hex(n)) : n \in 0..MaxVal}
        \cup {Str(Dec(n)) : n \in 0..MaxVal}

\* IncomingTransaction; estimatedGas is what getGas(transaction) finds on it
Transactions ==
    [estimatedGas : FieldValues, gasPrice : FieldValues,
     maxFeePerGas : FieldValues, maxPriorityFeePerGas : FieldValues]

getGas(tx) == tx.estimatedGas

----------------------------------------------------------------------------
(* getGasPriceFromTransaction *)

ClassicPrice(classic) == [t |-> "object", classic |-> classic, eip1559 |-> Undefined]
EIP1559(priority_fee, max_fee) ==
    [t |-> "object", priority_fee |-> priority_fee, max_fee |-> max_fee]
Eip1559Price(eip1559) == [t |-> "object", classic |-> Undefined, eip1559 |-> eip1559]

\* getGasPriceFromTransaction testing the EIP-1559 fields first
getGasPriceFromTransactionEip1559First(tx) ==
    IF ToBoolean(tx.maxPriorityFeePerGas) /\ ToBoolean(tx.maxFeePerGas)
    THEN Eip1559Price(EIP1559(Number(tx.maxPriorityFeePerGas), Number(tx.maxFeePerGas)))
    ELSE IF ToBoolean(getGas(tx)) /\ ToBoolean(tx.gasPrice)
    THEN ClassicPrice(Number(tx.gasPrice))
    ELSE Null

\* getGasPriceFromTransaction taking either EIP-1559 field as enough
getGasPriceFromTransactionEitherFee(tx) ==
    IF ToBoolean(getGas(tx)) /\ ToBoolean(tx.gasPrice)
    THEN ClassicPrice(Number(tx.gasPrice))
    ELSE IF ToBoolean(tx.maxPriorityFeePerGas) \/ ToBoolean(tx.maxFeePerGas)
    THEN Eip1559Price(EIP1559(Number(tx.maxPriorityFeePerGas), Number(tx.maxFeePerGas)))
    ELSE Null

\* getGasPriceFromTransaction keeping the EIP-1559 fees beside a classic price
getGasPriceFromTransactionBothVariants(tx) ==
    IF ToBoolean(getGas(tx)) /\ ToBoolean(tx.gasPrice)
    THEN [t |-> "object", classic |-> Number(tx.gasPrice),
          eip1559 |-> IF ToBoolean(tx.maxPriorityFeePerGas) /\ ToBoolean(tx.maxFeePerGas)
                      THEN EIP1559(Number(tx.maxPriorityFeePerGas), Number(tx.maxFeePerGas))
                      ELSE Undefined]
    ELSE IF ToBoolean(tx.maxPriorityFeePerGas) /\ ToBoolean(tx.maxFeePerGas)
    THEN Eip1559Price(EIP1559(Number(tx.maxPriorityFeePerGas), Number(tx.maxFeePerGas)))
    ELSE Null

getGasPriceFromTransaction(tx) ==
    LET gasPrice == tx.gasPrice
        maxFeePerGas == tx.maxFeePerGas
        maxPriorityFeePerGas == tx.maxPriorityFeePerGas
        estimatedGas == getGas(tx)
    IN IF ToBoolean(estimatedGas) /\ ToBoolean(gasPrice)
       THEN ClassicPrice(Number(gasPrice))
       ELSE IF ToBoolean(maxPriorityFeePerGas) /\ ToBoolean(maxFeePerGas)
       THEN Eip1559Price(EIP1559(Number(maxPriorityFeePerGas), Number(maxFeePerGas)))
       ELSE Null

----------------------------------------------------------------------------
(* getFeeTypeTitle *)

\* keyof ChainGasPrice['info']
TypeClassic == Str(<<"c", "l", "a", "s", "s", "i", "c">>)
TypeEip1559 == Str(<<"e", "i", "p", "1", "5", "5", "9">>)
TypeOptimistic == Str(<<"o", "p", "t", "i", "m", "i", "s", "t", "i", "c">>)
FeeTypes == {TypeClassic, TypeEip1559, TypeOptimistic}

labels ==
    [eip1559 |-> Str(<<"E", "I", "P", "-", "1", "5", "5", "9">>),
     optimistic |-> Str(<<"O", "p", "t", "i", "m", "i", "s", "t", "i", "c">>)]

\* getFeeTypeTitle with the classic and eip1559 cases exchanged
getFeeTypeTitleSwapped(type) ==
    IF ~ToBoolean(type) THEN Undefined
    ELSE IF type = TypeEip1559 THEN Undefined
    ELSE IF type = TypeClassic THEN labels.eip1559
    ELSE IF type = TypeOptimistic THEN labels.optimistic
    ELSE Undefined

getFeeTypeTitle(type) ==
    IF ~ToBoolean(type) THEN Undefined
    ELSE IF type = TypeClassic THEN Undefined
    ELSE IF type = TypeEip1559 THEN labels.eip1559
    ELSE IF type = TypeOptimistic THEN labels.optimistic
    ELSE Undefined

----------------------------------------------------------------------------
(* Chain gas prices: EIP1559GasPrices, ChainGasPrice *)

\* one tier of EIP1559GasPrices
EIP1559Info(priority_fee, max_fee, estimation_seconds) ==
    [t |-> "object", priority_fee |-> priority_fee, max_fee |-> max_fee,
     estimation_seconds |-> estimation_seconds]

TierFees == {Num(n) : n \in 1..MaxFee}

\* estimation_seconds as the backend may send it: absent or a number
EstimationSeconds == {Undefined} \cup {Num(n) : n \in -1..MaxSeconds}

\* the tiers the backend may publish: the priority fee is part of the
\* maximum fee, so it never exceeds it
EIP1559Infos(seconds) ==
    {EIP1559Info(fees[1], fees[2], sec) :
        fees \in {f \in TierFees \X TierFees : f[1].n <= f[2].n}, sec \in seconds}

\* estimation_seconds by tier, faster tiers first
TierSeconds == [rapid |-> Num(5), fast |-> Num(10), standard |-> Num(15), slow |-> Num(20)]

TierNames == <<"rapid", "fast", "standard", "slow">>

EIP1559GasPrices(rapid, fast, standard, slow) ==
    [t |-> "object", rapid |-> rapid, fast |-> fast, standard |-> standard,
     slow |-> slow]

ChainGasPrice(classic, eip1559) ==
    [t |-> "object",
     info |-> [t |-> "object", classic |-> classic, eip1559 |-> eip1559]]

\* value?.key
Optional(value, key) == IF value.t \in {"undefined", "null"} THEN Undefined ELSE value[key]

----------------------------------------------------------------------------
(* findMatchingEip1559 and the time memo *)

isMatch(value1, value2) ==
    /\ StrictEquals(value1.max_fee, value2.max_fee)
    /\ StrictEquals(value1.priority_fee, value2.priority_fee)

RECURSIVE findLast(_, _)
\* find searching from the end of the array
findLast(array, eip1559) ==
    IF Len(array) = 0 THEN Undefined
    ELSE IF isMatch(array[Len(array)], eip1559) THEN array[Len(array)]
    ELSE findLast(SubSeq(array, 1, Len(array) - 1), eip1559)

RECURSIVE find(_, _)
\* Array.prototype.find with the predicate isMatch(_, eip1559)
find(array, eip1559) ==
    IF Len(array) = 0 THEN Undefined
    ELSE IF isMatch(Head(array), eip1559) THEN Head(array)
    ELSE find(Tail(array), eip1559)

findMatchingEip1559(eip1559GasPrices, eip1559) ==
    LET rapid == eip1559GasPrices.rapid
        fast == eip1559GasPrices.fast
        standard == eip1559GasPrices.standard
        slow == eip1559GasPrices.slow
    IN find(SelectSeq(<<rapid, fast, standard, slow>>, isTruthy), eip1559)

RECURSIVE IntToChars(_)
IntToChars(n) ==
    IF n < 0 THEN <<"-">> \o IntToChars(-n)
    ELSE IF n < 10 THEN <<DecDigits[n + 1]>>
    ELSE IntToChars(n \div 10) \o <<DecDigits[(n % 10) + 1]>>

\* the duration formatter: the number of seconds followed by its unit
formatSeconds(seconds) == IntToChars(seconds.n) \o <<"s">>

\* useMemo(() => ..., [chainGasPrices?.info.eip1559, gasPriceFromTransaction])
time(gasPriceFromTransaction, chainGasPrices) ==
    LET txEip1559 == Optional(gasPriceFromTransaction, "eip1559")
        chainEip1559 == Optional(Optional(chainGasPrices, "info"), "eip1559")
    IN IF ToBoolean(txEip1559) /\ ToBoolean(chainEip1559)
       THEN LET eip1559Info == findMatchingEip1559(chainEip1559, txEip1559)
                seconds == Optional(eip1559Info, "estimation_seconds")
            IN IF ToBoolean(seconds)
               THEN Str(<<"~">> \o formatSeconds(seconds))
               ELSE Undefined
       ELSE Undefined

----------------------------------------------------------------------------
(* The state NetworkFee starts from, held fixed by the pure-function
   specifications *)

Idle == [status |-> "idle", step |-> "none", data |-> Undefined, error |-> "none"]

ComponentIdle ==
    /\ transaction = Undefined
    /\ provider = Undefined
    /\ phase = "init"
    /\ gasPricesQuery = Idle
    /\ feeEstimationQuery = Idle
    /\ estimationCall = Undefined
    /\ nativeAsset = Undefined
    /\ fetches = 0

componentVars == <<transaction, provider, phase, gasPricesQuery,
                   feeEstimationQuery, estimationCall, nativeAsset, fetches>>

NoCall == [fn |-> "none", value |-> Undefined]

----------------------------------------------------------------------------
(* SpecPure: getGasPriceFromTransaction and getFeeTypeTitle applied to every
   transaction and every fee type *)

InitPure ==
    /\ args \in [transaction : Transactions, type : FeeTypes \cup {Undefined}]
    /\ ret = NoCall
    /\ ComponentIdle

CallGetGasPriceFromTransaction ==
    /\ ret' = [fn |-> "getGasPriceFromTransaction",
               value |-> getGasPriceFromTransaction(args.transaction)]
    /\ UNCHANGED <<args, componentVars>>

CallGetFeeTypeTitle ==
    /\ ret' = [fn |-> "getFeeTypeTitle", value |-> getFeeTypeTitle(args.type)]
    /\ UNCHANGED <<args, componentVars>>

NextPure == CallGetGasPriceFromTransaction \/ CallGetFeeTypeTitle

SpecPure == InitPure /\ [][NextPure]_vars

----------------------------------------------------------------------------
(* SpecMatch: findMatchingEip1559 applied to every set of tiers and every
   EIP-1559 pair a transaction can carry *)

\* what getGasPriceFromTransaction can return
GasPricesFromTransaction == {getGasPriceFromTransaction(tx) : tx \in Transactions}

\* the eip1559 parts among them
TransactionEip1559s ==
    {Optional(g, "eip1559") : g \in GasPricesFromTransaction} \ {Undefined}

AnyEIP1559GasPrices(seconds) ==
    {EIP1559GasPrices(rapid, fast, standard, slow) :
        rapid \in {Undefined} \cup EIP1559Infos(seconds.rapid),
        fast \in {Undefined} \cup EIP1559Infos(seconds.fast),
        standard \in {Undefined} \cup EIP1559Infos(seconds.standard),
        slow \in {Undefined} \cup EIP1559Infos(seconds.slow)}

SecondsOfTier == [name \in DOMAIN TierSeconds |-> {TierSeconds[name]}]

InitMatch ==
    /\ args \in [eip1559GasPrices : AnyEIP1559GasPrices(SecondsOfTier),
                  eip1559 : TransactionEip1559s]
    /\ ret = NoCall
    /\ ComponentIdle

CallFindMatchingEip1559 ==
    /\ ret = NoCall
    /\ ret' = [fn |-> "findMatchingEip1559",
               value |-> findMatchingEip1559(args.eip1559GasPrices, args.eip1559)]
    /\ UNCHANGED <<args, componentVars>>

NextMatch == CallFindMatchingEip1559

SpecMatch == InitMatch /\ [][NextMatch]_vars

----------------------------------------------------------------------------
(* SpecTime: the time memo applied to every result of
   getGasPriceFromTransaction and every state of the gasPrices query data *)

AnySeconds == [name \in DOMAIN TierSeconds |-> EstimationSeconds]

\* the data of the gasPrices query: none yet, prices without EIP-1559 tiers,
\* or prices with any tiers
TimeChainGasPrices(tiers) ==
    {Undefined, ChainGasPrice(Undefined, Undefined)}
        \cup {ChainGasPrice(Undefined, e) : e \in tiers}

InitTime ==
    /\ args \in [gasPriceFromTransaction : GasPricesFromTransaction,
                  chainGasPrices :
                      TimeChainGasPrices(AnyEIP1559GasPrices(AnySeconds))]
    /\ ret = NoCall
    /\ ComponentIdle

ComputeTime ==
    /\ ret = NoCall
    /\ ret' = [fn |-> "time",
               value |-> time(args.gasPriceFromTransaction, args.chainGasPrices)]
    /\ UNCHANGED <<args, componentVars>>

NextTime == ComputeTime

SpecTime == InitTime /\ [][NextTime]_vars

----------------------------------------------------------------------------
(* NetworkFee: what the component reads and computes *)

\* BigNumber: the decimal c * 10^-e
BigNumber(c, e) == [t |-> "BigNumber", c |-> c, e |-> e]

RECURSIVE Pow10(_)
Pow10(e) == IF e = 0 THEN 1 ELSE 10 * Pow10(e - 1)

\* base units to whole units: the value shifted by the asset's decimals
baseToCommon(value, decimals) == BigNumber(value.n, decimals)

\* BigNumber.times
times(quantity, factor) == BigNumber(quantity.c * factor.n, quantity.e)

\* the native asset's decimals on the chain
getDecimals(asset) == asset.decimals

Price(value) == [t |-> "object", value |-> value]

\* the price of one whole unit, as the asset provider may send it
Prices == {Null, Price(Num(0)), Price(Num(2000))}

NativeAssets ==
    {[t |-> "object", decimals |-> d, price |-> p] : d \in 0..MaxDecimals, p \in Prices}

\* what getNetworkFeeEstimation may resolve to: a fee in base units, tagged
\* with the kind of price used
FeeEstimations ==
    {[t |-> "object", type |-> type, value |-> Num(v)] :
        type \in FeeTypes, v \in {0} \cup {Pow10(d) : d \in 0..MaxDecimals}}

\* the transactions of the component's runs
ComponentFieldValues == {Undefined, Str(<<>>), Str(Hex(MaxVal))}

ComponentTransactions ==
    [estimatedGas : ComponentFieldValues \cup {Str(<<"z">>)},
     gasPrice : ComponentFieldValues,
     maxFeePerGas : ComponentFieldValues, maxPriorityFeePerGas : ComponentFieldValues]

\* ChainGasPrice['info'].classic
ClassicGasPrices(fast) == [t |-> "object", fast |-> fast]

\* gasPrices[chain.toString()] as the subscription may hold it: nothing for
\* the chain, or its classic and EIP-1559 prices, each optional
ComponentChainGasPrices ==
    {Undefined}
        \cup {ChainGasPrice(classic, eip1559) :
                classic \in {Undefined, ClassicGasPrices(Undefined)}
                                \cup {ClassicGasPrices(f) : f \in TierFees},
                eip1559 \in {Undefined}
                                \cup {EIP1559GasPrices(Undefined, fast, Undefined, Undefined) :
                                        fast \in {Undefined}
                                            \cup EIP1559Infos(SecondsOfTier.fast)}}

Loading(step) == [status |-> "loading", step |-> step, data |-> Undefined, error |-> "none"]
Success(data) == [status |-> "success", step |-> "done", data |-> data, error |-> "none"]
Failed(error) == [status |-> "error", step |-> "done", data |-> Undefined, error |-> error]

\* useMemo(() => getGasPriceFromTransaction(transaction), [transaction])
gasPriceFromTransaction == getGasPriceFromTransaction(transaction)

chainGasPrices == gasPricesQuery.data
feeEstimation == feeEstimationQuery.data
isLoading == feeEstimationQuery.status = "loading"

\* the gasPrice argument of getNetworkFeeEstimation, preferring the chain's
\* fast tier over the transaction's own price
EstimationGasPriceChainFirst(fromTransaction, chainPrices) ==
    IF chainPrices # Undefined
       /\ (Optional(chainPrices.info.classic, "fast") # Undefined
             \/ Optional(chainPrices.info.eip1559, "fast") # Undefined)
    THEN [t |-> "object",
          classic |-> Optional(chainPrices.info.classic, "fast"),
          eip1559 |-> Optional(chainPrices.info.eip1559, "fast")]
    ELSE fromTransaction

\* the gasPrice argument of getNetworkFeeEstimation:
\* gasPriceFromTransaction || { classic: ...?.fast, eip1559: ...?.fast }
EstimationGasPrice(fromTransaction, chainPrices) ==
    IF ToBoolean(fromTransaction)
    THEN fromTransaction
    ELSE [t |-> "object",
          classic |-> Optional(chainPrices.info.classic, "fast"),
          eip1559 |-> Optional(chainPrices.info.eip1559, "fast")]

\* fiatValue with an absent price counted as a price of zero
FiatValueZeroWhenNoPrice(asset, estimation) ==
    IF ~ToBoolean(asset) \/ ~ToBoolean(estimation)
    THEN Undefined
    ELSE LET commonQuantity == baseToCommon(estimation.value, getDecimals(asset))
             price == asset.price
         IN IF ~ToBoolean(price)
            THEN times(commonQuantity, Num(0))
            ELSE times(commonQuantity, price.value)

\* the fiatValue memo
FiatValue(asset, estimation) ==
    IF ~ToBoolean(asset) \/ ~ToBoolean(estimation)
    THEN Undefined
    ELSE LET commonQuantity == baseToCommon(estimation.value, getDecimals(asset))
             price == asset.price
         IN IF ~ToBoolean(price)
            THEN Null
            ELSE times(commonQuantity, price.value)

fiatValue == FiatValue(nativeAsset, feeEstimation)

\* what NetworkFee shows next to "Network Fee": nothing (it threw or the error
\* boundary replaced it), the spinner, null, or the fee text with its title
rendered ==
    IF phase # "mounted" THEN [t |-> "unmounted"]
    ELSE IF isLoading THEN [t |-> "CircleSpinner"]
    ELSE IF fiatValue \in {Null, Undefined} THEN Null
    ELSE [t |-> "UIText",
          title |-> getFeeTypeTitle(Optional(feeEstimation, "type")),
          time |-> time(gasPriceFromTransaction, chainGasPrices),
          value |-> fiatValue]

----------------------------------------------------------------------------
(* Spec: NetworkFee from its first render on *)

Init ==
    /\ args = Undefined
    /\ ret = NoCall
    /\ transaction \in ComponentTransactions
    /\ provider \in ComponentChainGasPrices
    /\ phase = "init"
    /\ gasPricesQuery = Idle
    /\ feeEstimationQuery = Idle
    /\ estimationCall = Undefined
    /\ nativeAsset = Undefined
    /\ fetches = 0

\* the first render with the gas check left out: the hooks always run
RenderWithoutGasCheck ==
    /\ phase = "init"
    /\ phase' = "mounted"
    /\ gasPricesQuery' = Loading("gasChainPricesSubscription")
    /\ feeEstimationQuery' = Loading("gasChainPricesSubscription")
    /\ fetches' = fetches + 2
    /\ UNCHANGED <<args, ret, transaction, provider, estimationCall, nativeAsset>>

\* the first render: the gas check, then the hooks; both queries start and
\* each calls gasChainPricesSubscription.get()
Render ==
    /\ phase = "init"
    /\ IF ~ToBoolean(getGas(transaction))
       THEN /\ phase' = "thrown"
            /\ UNCHANGED <<gasPricesQuery, feeEstimationQuery, fetches>>
       ELSE /\ phase' = "mounted"
            /\ gasPricesQuery' = Loading("gasChainPricesSubscription")
            /\ feeEstimationQuery' = Loading("gasChainPricesSubscription")
            /\ fetches' = fetches + 2
    /\ UNCHANGED <<args, ret, transaction, provider, estimationCall, nativeAsset>>

\* useNativeAsset(chain) delivers the asset
NativeAssetLoaded ==
    /\ phase = "mounted"
    /\ nativeAsset = Undefined
    /\ nativeAsset' \in NativeAssets
    /\ UNCHANGED <<args, ret, transaction, provider, phase, gasPricesQuery,
                   feeEstimationQuery, estimationCall, fetches>>

\* the gasPrices query: get() resolves, the chain's prices become its data
GasPricesQueryResolved ==
    /\ phase = "mounted"
    /\ gasPricesQuery.status = "loading"
    /\ gasPricesQuery' = Success(provider)
    /\ UNCHANGED <<args, ret, transaction, provider, phase, feeEstimationQuery,
                   estimationCall, nativeAsset, fetches>>

\* the gasPrices query: get() rejects; useErrorBoundary hands the error to
\* the error boundary
GasPricesQueryRejected ==
    /\ phase = "mounted"
    /\ gasPricesQuery.status = "loading"
    /\ gasPricesQuery' = Failed("gasChainPricesSubscription")
    /\ phase' = "errorBoundary"
    /\ UNCHANGED <<args, ret, transaction, provider, feeEstimationQuery,
                   estimationCall, nativeAsset, fetches>>

\* the feeEstimation query: its own get() resolves and it calls
\* getNetworkFeeEstimation; reading .info of no chain prices throws
FeeEstimationGasPricesResolved ==
    /\ phase = "mounted"
    /\ feeEstimationQuery.status = "loading"
    /\ feeEstimationQuery.step = "gasChainPricesSubscription"
    /\ IF ~ToBoolean(gasPriceFromTransaction) /\ provider = Undefined
       THEN /\ feeEstimationQuery' = Failed("TypeError")
            /\ UNCHANGED estimationCall
       ELSE /\ feeEstimationQuery' = Loading("getNetworkFeeEstimation")
            /\ estimationCall' =
                  [t |-> "object",
                   transaction |-> transaction,
                   gas |-> Number(getGas(transaction)),
                   gasPrices |-> provider,
                   gasPrice |-> EstimationGasPrice(gasPriceFromTransaction, provider)]
    /\ UNCHANGED <<args, ret, transaction, provider, phase, gasPricesQuery,
                   nativeAsset, fetches>>

\* the feeEstimation query: its own get() rejects; the query holds the error
FeeEstimationGasPricesRejected ==
    /\ phase = "mounted"
    /\ feeEstimationQuery.status = "loading"
    /\ feeEstimationQuery.step = "gasChainPricesSubscription"
    /\ feeEstimationQuery' = Failed("gasChainPricesSubscription")
    /\ UNCHANGED <<args, ret, transaction, provider, phase, gasPricesQuery,
                   estimationCall, nativeAsset, fetches>>

\* getNetworkFeeEstimation resolves
FeeEstimationResolved ==
    /\ phase = "mounted"
    /\ feeEstimationQuery.status = "loading"
    /\ feeEstimationQuery.step = "getNetworkFeeEstimation"
    /\ \E estimation \in FeeEstimations : feeEstimationQuery' = Success(estimation)
    /\ UNCHANGED <<args, ret, transaction, provider, phase, gasPricesQuery,
                   estimationCall, nativeAsset, fetches>>

\* getNetworkFeeEstimation rejects
FeeEstimationRejected ==
    /\ phase = "mounted"
    /\ feeEstimationQuery.status = "loading"
    /\ feeEstimationQuery.step = "getNetworkFeeEstimation"
    /\ feeEstimationQuery' = Failed("getNetworkFeeEstimation")
    /\ UNCHANGED <<args, ret, transaction, provider, phase, gasPricesQuery,
                   estimationCall, nativeAsset, fetches>>

Next ==
    \/ Render
    \/ NativeAssetLoaded
    \/ GasPricesQueryResolved
    \/ GasPricesQueryRejected
    \/ FeeEstimationGasPricesResolved
    \/ FeeEstimationGasPricesRejected
    \/ FeeEstimationResolved
    \/ FeeEstimationRejected

Spec == Init /\ [][Next]_vars

----------------------------------------------------------------------------
(* Properties of getGasPriceFromTransaction (SpecPure) *)

\* a field is present when it is set to a string that is not empty
Present(v) == v.t = "string" /\ v.s # <<>>

Extracted == ret.fn = "getGasPriceFromTransaction"

\* the condition of the classic branch: a gas value and a gasPrice
ClassicCondition(tx) == Present(tx.estimatedGas) /\ Present(tx.gasPrice)

\* the number a field's literal denotes: n for the hex and the decimal
\* literal of n, NaN for text that is no literal
Denotes(v, number) ==
    \/ \E n \in 0..MaxVal : v \in {Str(Hex(n)), Str(Dec(n))} /\ number = Num(n)
    \/ v = Str(<<"z">>) /\ number = NaN

\* C1: whenever the gas lookup yields a value and gasPrice is present, the
\* result is the classic price Number(gasPrice) with no EIP-1559 part, whatever
\* maxFeePerGas and maxPriorityFeePerGas hold.
C1_ClassicPrecedence ==
    (Extracted /\ ClassicCondition(args.transaction))
        => /\ ret.value.t = "object"
           /\ Denotes(args.transaction.gasPrice, ret.value.classic)
           /\ ret.value.eip1559 = Undefined

\* gasPrice and both EIP-1559 fees are present and the classic price came out
C1_Witness ==
    /\ Extracted
    /\ ClassicCondition(args.transaction)
    /\ Present(args.transaction.maxFeePerGas)
    /\ Present(args.transaction.maxPriorityFeePerGas)
    /\ ret.value.classic = Num(MaxVal)
    /\ ret.value.eip1559 = Undefined

\* C2: when the classic condition does not hold, the result is the EIP-1559
\* pair of Number(maxPriorityFeePerGas) and Number(maxFeePerGas) exactly when
\* both fields are present, and null when one of them is absent.
C2_Eip1559OrNone ==
    (Extracted /\ ~ClassicCondition(args.transaction))
        => IF Present(args.transaction.maxPriorityFeePerGas)
              /\ Present(args.transaction.maxFeePerGas)
           THEN /\ ret.value.t = "object"
                /\ ret.value.classic = Undefined
                /\ Denotes(args.transaction.maxPriorityFeePerGas,
                           ret.value.eip1559.priority_fee)
                /\ Denotes(args.transaction.maxFeePerGas, ret.value.eip1559.max_fee)
           ELSE ret.value = Null

\* gasPrice is present without a gas value, maxFeePerGas is present alone, and
\* null came out
C2_Witness ==
    /\ Extracted
    /\ Present(args.transaction.gasPrice)
    /\ ~Present(args.transaction.estimatedGas)
    /\ Present(args.transaction.maxFeePerGas)
    /\ ~Present(args.transaction.maxPriorityFeePerGas)
    /\ ret.value = Null

----------------------------------------------------------------------------
(* Properties of getFeeTypeTitle (SpecPure) *)

\* C9: getFeeTypeTitle returns undefined for classic, "EIP-1559" for eip1559,
\* "Optimistic" for optimistic and undefined for undefined.
C9_FeeTypeTitle ==
    ret.fn = "getFeeTypeTitle"
        => /\ args.type \in {Str(<<"c", "l", "a", "s", "s", "i", "c">>), Undefined}
               => ret.value = Undefined
           /\ args.type = Str(<<"e", "i", "p", "1", "5", "5", "9">>)
               => ret.value = Str(<<"E", "I", "P", "-", "1", "5", "5", "9">>)
           /\ args.type = Str(<<"o", "p", "t", "i", "m", "i", "s", "t", "i", "c">>)
               => ret.value = Str(<<"O", "p", "t", "i", "m", "i", "s", "t", "i", "c">>)
           /\ args.type.t \in {"undefined", "string"}
           /\ ret.value.t \in {"undefined", "string"}

\* the title of an optimistic fee has been computed
C9_Witness ==
    /\ ret.fn = "getFeeTypeTitle"
    /\ args.type = TypeOptimistic
    /\ ret.value = labels.optimistic

----------------------------------------------------------------------------
(* Properties of findMatchingEip1559 (SpecMatch) *)

\* the tier under the i-th name is present and equal to the pair on both fees
TierMatches(gasPrices, i, eip1559) ==
    /\ gasPrices[TierNames[i]] # Undefined
    /\ gasPrices[TierNames[i]].max_fee = eip1559.max_fee
    /\ gasPrices[TierNames[i]].priority_fee = eip1559.priority_fee

\* C3: the result is the first tier, in the order rapid, fast, standard, slow
\* with absent tiers skipped, equal to the target on both fees; it is
\* undefined when no present tier is.
C3_FirstMatchingTier ==
    ret.fn = "findMatchingEip1559"
        => LET matching == {i \in 1..4 :
                               TierMatches(args.eip1559GasPrices, i, args.eip1559)}
           IN IF matching = {}
              THEN ret.value = Undefined
              ELSE \E i \in matching :
                      /\ \A j \in matching : i <= j
                      /\ ret.value = args.eip1559GasPrices[TierNames[i]]

\* rapid is present and equal on the priority fee alone, fast and slow both
\* match, and the fast tier is returned
C3_Witness ==
    /\ ret.fn = "findMatchingEip1559"
    /\ args.eip1559GasPrices.rapid # Undefined
    /\ args.eip1559GasPrices.rapid.priority_fee = args.eip1559.priority_fee
    /\ ~TierMatches(args.eip1559GasPrices, 1, args.eip1559)
    /\ TierMatches(args.eip1559GasPrices, 2, args.eip1559)
    /\ TierMatches(args.eip1559GasPrices, 4, args.eip1559)
    /\ ret.value = args.eip1559GasPrices.fast
    /\ ret.value # args.eip1559GasPrices.slow

----------------------------------------------------------------------------
(* Properties of the time memo (SpecTime) *)

\* C10: a duration string is produced only when the transaction's own basis
\* is EIP-1559, the chain's EIP-1559 tiers are available, a tier matches and
\* that tier's estimation_seconds is present and strictly greater than zero.
C10_TimeOnlyForPositiveSeconds ==
    (ret.fn = "time" /\ ret.value # Undefined)
        => /\ args.gasPriceFromTransaction # Null
           /\ args.gasPriceFromTransaction.eip1559 # Undefined
           /\ args.chainGasPrices # Undefined
           /\ args.chainGasPrices.info.eip1559 # Undefined
           /\ LET tiers == args.chainGasPrices.info.eip1559
                  target == args.gasPriceFromTransaction.eip1559
                  matching == {i \in 1..4 : TierMatches(tiers, i, target)}
              IN /\ matching # {}
                 /\ \E i \in matching :
                        /\ \A j \in matching : i <= j
                        /\ tiers[TierNames[i]].estimation_seconds.t = "number"
                        /\ tiers[TierNames[i]].estimation_seconds.n > 0

----------------------------------------------------------------------------
(* Properties of NetworkFee (Spec) *)

CallIssued == estimationCall # Undefined

\* a variant of a price object is populated when it holds a value
Populated(v) == v.t \notin {"undefined", "null"}

ExactlyOneVariant(gasPrice) == Populated(gasPrice.classic) # Populated(gasPrice.eip1559)

\* the chain publishes a classic, respectively an EIP-1559, fast tier
ChainHasClassicFast ==
    /\ provider # Undefined
    /\ provider.info.classic # Undefined
    /\ provider.info.classic.fast # Undefined

ChainHasEip1559Fast ==
    /\ provider # Undefined
    /\ provider.info.eip1559 # Undefined
    /\ provider.info.eip1559.fast # Undefined

\* C4 as stated: every gasPrice handed to getNetworkFeeEstimation, extracted
\* or fallback, has exactly one of classic and eip1559 populated.
C4_ExactlyOneVariantAlways == CallIssued => ExactlyOneVariant(estimationCall.gasPrice)

\* C4 as amended: a gasPrice extracted from the transaction has exactly one
\* variant populated; the fallback has classic populated exactly when the chain
\* publishes a classic fast tier and eip1559 exactly when it publishes an
\* EIP-1559 fast tier, so it may hold both or neither.
C4_ExactlyOneVariantWhenExtracted ==
    CallIssued
        => IF getGasPriceFromTransaction(transaction) # Null
           THEN ExactlyOneVariant(estimationCall.gasPrice)
           ELSE /\ Populated(estimationCall.gasPrice.classic) <=> ChainHasClassicFast
                /\ Populated(estimationCall.gasPrice.eip1559) <=> ChainHasEip1559Fast

\* a transaction carrying gasPrice and both EIP-1559 fees has been handed on
\* with its classic price alone
C4_Witness ==
    /\ CallIssued
    /\ Populated(transaction.gasPrice)
    /\ Populated(transaction.maxFeePerGas)
    /\ Populated(transaction.maxPriorityFeePerGas)
    /\ Populated(estimationCall.gasPrice.classic)
    /\ ~Populated(estimationCall.gasPrice.eip1559)

\* C5: the gasPrice handed to getNetworkFeeEstimation is the transaction's own
\* whenever getGasPriceFromTransaction returns one, whatever the chain
\* publishes, and is the chain's fast tier (classic from the classic fast
\* price, eip1559 from the EIP-1559 fast tier) exactly when it returns null.
C5_FallbackOnlyWhenNoneExtracted ==
    CallIssued
        => LET own == getGasPriceFromTransaction(transaction)
               chainFast ==
                   [t |-> "object",
                    classic |-> IF ChainHasClassicFast
                                THEN provider.info.classic.fast ELSE Undefined,
                    eip1559 |-> IF ChainHasEip1559Fast
                                THEN provider.info.eip1559.fast ELSE Undefined]
           IN /\ own # Null => estimationCall.gasPrice = own
              /\ own = Null => estimationCall.gasPrice = chainFast

\* the transaction's own classic price has been handed on although the chain
\* publishes a different classic fast price
C5_Witness ==
    /\ CallIssued
    /\ ChainHasClassicFast
    /\ Populated(estimationCall.gasPrice.classic)
    /\ estimationCall.gasPrice.classic # provider.info.classic.fast
    /\ estimationCall.gasPrice = getGasPriceFromTransaction(transaction)

\* C6 as stated: with a fee estimation and the native asset available, an
\* absent price yields an "unknown" result that is neither a number nor a
\* null-equivalent value; a present price yields the fee in whole units times
\* the price.
C6_UnknownNeverNullEquivalent ==
    (nativeAsset # Undefined /\ feeEstimationQuery.status = "success")
        => IF nativeAsset.price \in {Null, Undefined}
           THEN fiatValue.t \notin {"BigNumber", "null", "undefined"}
           ELSE /\ fiatValue.t = "BigNumber"
                /\ fiatValue.c * Pow10(nativeAsset.decimals)
                      = feeEstimationQuery.data.value.n * nativeAsset.price.value.n
                           * Pow10(fiatValue.e)

\* C6 as amended: with a fee estimation and the native asset available, an
\* absent price yields null, which is not a number (so never zero) and not the
\* undefined of missing data, and for which nothing is shown; a present price
\* yields the fee in whole units times the price, a number even when it is
\* zero, and that number is shown.
C6_FiatUnknownOrProduct ==
    (nativeAsset # Undefined /\ feeEstimationQuery.status = "success")
        => IF nativeAsset.price \in {Null, Undefined}
           THEN /\ fiatValue = Null
                /\ phase = "mounted" => rendered = Null
           ELSE /\ fiatValue.t = "BigNumber"
                /\ fiatValue.c * Pow10(nativeAsset.decimals)
                      = feeEstimationQuery.data.value.n * nativeAsset.price.value.n
                           * Pow10(fiatValue.e)
                /\ phase = "mounted"
                      => rendered.t = "UIText" /\ rendered.value = fiatValue

\* one whole unit of fee at a price of 2000 has been converted to 2000
C6_Witness ==
    /\ nativeAsset # Undefined
    /\ feeEstimationQuery.status = "success"
    /\ nativeAsset.decimals = MaxDecimals
    /\ feeEstimationQuery.data.value.n = Pow10(MaxDecimals)
    /\ nativeAsset.price = Price(Num(2000))
    /\ fiatValue.c = 2000 * Pow10(fiatValue.e)

\* C7: a failed fetch of the chain's gas prices, in the gasPrices query or
\* inside the feeEstimation query, is handed to the error boundary: once the
\* gasPrices query has settled, no such failure is left held by a query while
\* NetworkFee stays mounted and shows nothing.
C7_ProviderFailureReachesErrorBoundary ==
    (/\ gasPricesQuery.status \in {"success", "error"}
     /\ \/ gasPricesQuery.error = "gasChainPricesSubscription"
        \/ feeEstimationQuery.error = "gasChainPricesSubscription")
        => phase = "errorBoundary"

\* C8: a transaction without a gas value makes NetworkFee throw, with no
\* fetch issued, no estimation call made and nothing shown; every estimation
\* call made carries the transaction's own gas, converted to a number.
C8_MissingGasThrows ==
    /\ (~ToBoolean(transaction.estimatedGas) /\ phase # "init") => phase = "thrown"
    /\ phase = "thrown"
          => /\ ~ToBoolean(transaction.estimatedGas)
             /\ fetches = 0
             /\ gasPricesQuery.status = "idle"
             /\ feeEstimationQuery.status = "idle"
             /\ ~CallIssued
             /\ rendered = [t |-> "unmounted"]
    /\ CallIssued
          => /\ ToBoolean(transaction.estimatedGas)
             /\ estimationCall.gas = Number(transaction.estimatedGas)
             /\ estimationCall.transaction = transaction

\* NetworkFee has thrown on a transaction that carries a gasPrice and no gas
C8_Witness ==
    /\ phase = "thrown"
    /\ transaction.estimatedGas = Undefined
    /\ transaction.gasPrice # Undefined
    /\ fetches = 0

====
